---- MODULE Spec2Model ----
(***************************************************************************)
(* Numeric input descriptors of backend/nodes/properties/inputs/           *)
(* generic_inputs.py: construction, toDict and enforce of NumberInput and  *)
(* its six subclasses.                                                     *)
(*                                                                         *)
(* A Python number is a record [ty, n]: ty is its Python type and n its    *)
(* value in units of 1/Scale (an int k is n = k * Scale).  None is the     *)
(* record of type "NoneType".                                              *)
(***************************************************************************)
EXTENDS Integers, Sequences, FiniteSets

VARIABLES
    self,        \* the descriptor object (its attributes)
    constructed, \* the attributes as __init__ left them (history)
    optimize,    \* interpreter runs with -O: assert statements are skipped
    x,           \* argument of the most recent enforce(value) call
    out,         \* outcome of that call
    out2,        \* outcome of enforce(out.val), when the caller re-enforced
    dicts,       \* records returned by the toDict() calls so far
    noneCalls    \* number of enforce(None) calls so far

vars == <<self, constructed, optimize, x, out, out2, dicts, noneCalls>>

\* ---- bounds of the model ----
Scale == 10      \* fractional resolution: values are multiples of 1/Scale
MaxAbs == 5      \* enforce arguments range over -MaxAbs .. MaxAbs
MaxBound == 1    \* constructor bounds range over -MaxBound .. MaxBound
MaxToDict == 2   \* toDict calls recorded
MaxNone == 1     \* enforce(None) calls counted

\* ---- Python values ----
None == [ty |-> "NoneType", n |-> 0]
PyInt(k) == [ty |-> "int", n |-> k * Scale]
PyFloat(n) == [ty |-> "float", n |-> n]

\* float(v) for a number v: same value, type float
float(v) == [ty |-> "float", n |-> v.n]

\* int(v) for a number v: truncation toward zero, type int
int(v) ==
    [ty |-> "int",
     n |-> IF v.n >= 0 THEN (v.n \div Scale) * Scale
                       ELSE -(((-v.n) \div Scale) * Scale)]

\* builtin max(a, b) / min(a, b): the first argument wins a tie
max(a, b) == IF b.n > a.n THEN b ELSE a
min(a, b) == IF b.n < a.n THEN b ELSE a

\* a % 2 on an int (result 0 or 1, sign of the divisor), and a - b on ints
Mod2(a) == [ty |-> "int", n |-> ((a.n \div Scale) % 2) * Scale]
Sub(a, b) == [ty |-> "int", n |-> a.n - b.n]

\* Python ==  on numbers: numeric equality across int and float
PyEq(a, b) == a.n = b.n

\* ---- call outcomes ----
Return(v) == [kind |-> "return", val |-> v, exc |-> ""]
Raise(e) == [kind |-> "raise", val |-> None, exc |-> e]
NoCall == [kind |-> "none", val |-> None, exc |-> ""]

\* ---- construction ----
BaseInput_init(input_type, label) ==
    [input_type |-> input_type, label |-> label]

NumberInput_init(cls, label, default, minimum, maximum, step, optional, number_type) ==
    LET b == BaseInput_init("number::" \o number_type, label)
    IN  [cls |-> cls,
         input_type |-> b.input_type,
         label |-> b.label,
         default |-> default,
         minimum |-> minimum,
         maximum |-> maximum,
         step |-> step,
         optional |-> optional]

NumberInput(label, default, minimum, maximum, step, optional, number_type) ==
    NumberInput_init("NumberInput", label, default, minimum, maximum, step,
                     optional, number_type)

IntegerInput(label) ==
    NumberInput_init("IntegerInput", label, PyInt(0), PyInt(0), None, None,
                     FALSE, "any")

BoundedNumberInput(label, minimum, maximum, default, step) ==
    NumberInput_init("BoundedNumberInput", label, default, minimum, maximum,
                     step, FALSE, "any")

OddIntegerInput(label, default, minimum) ==
    NumberInput_init("OddIntegerInput", label, default, minimum, None, PyInt(2),
                     FALSE, "any")

BoundedIntegerInput(label, minimum, maximum, default, optional) ==
    NumberInput_init("BoundedIntegerInput", label, default, minimum, maximum,
                     PyInt(1), optional, "any")

BoundlessIntegerInput(label) ==
    NumberInput_init("BoundlessIntegerInput", label, PyInt(0), None, None,
                     PyInt(1), FALSE, "any")

SliderInput(label, min_val, max_val, default, optional) ==
    NumberInput_init("SliderInput", label, default, min_val, max_val, PyInt(1),
                     optional, "slider")

\* ---- toDict ----
\* variant: "max" is filled from the minimum
NumberInput_toDict_maxFromMin(s) ==
    [type |-> s.input_type,
     label |-> s.label,
     min |-> s.minimum,
     max |-> s.minimum,
     def |-> s.default,
     step |-> s.step,
     hasHandle |-> TRUE,
     optional |-> s.optional]

NumberInput_toDict(s) ==
    [type |-> s.input_type,
     label |-> s.label,
     min |-> s.minimum,
     max |-> s.maximum,
     def |-> s.default,
     step |-> s.step,
     hasHandle |-> TRUE,
     optional |-> s.optional]

\* ---- enforce ----
\* `assert value is not None` raises AssertionError unless running with -O;
\* float(None) / int(None) raise TypeError.
NumberInput_enforce(s, value, opt) ==
    IF ~opt /\ value = None THEN Raise("AssertionError")
    ELSE IF s.minimum = None \/ value = None THEN Raise("TypeError")
    ELSE Return(max(float(s.minimum), float(value)))

\* variant: the lower clamp is left out
IntegerInput_enforce_noClamp(s, value, opt) ==
    IF ~opt /\ value = None THEN Raise("AssertionError")
    ELSE IF value = None THEN Raise("TypeError")
    ELSE Return(int(value))

IntegerInput_enforce(s, value, opt) ==
    IF ~opt /\ value = None THEN Raise("AssertionError")
    ELSE IF s.minimum = None \/ value = None THEN Raise("TypeError")
    ELSE Return(max(int(s.minimum), int(value)))

\* variant: the upper clamp is left out
BoundedNumberInput_enforce_noUpper(s, value, opt) ==
    IF ~opt /\ value = None THEN Raise("AssertionError")
    ELSE IF s.minimum = None \/ value = None THEN Raise("TypeError")
    ELSE Return(max(float(s.minimum), float(value)))

BoundedNumberInput_enforce(s, value, opt) ==
    IF ~opt /\ value = None THEN Raise("AssertionError")
    ELSE IF s.minimum = None \/ value = None \/ s.maximum = None
         THEN Raise("TypeError")
    ELSE Return(min(max(float(s.minimum), float(value)), float(s.maximum)))

\* variant: one is subtracted whatever the parity
OddIntegerInput_enforce_minusOne(s, value, opt) ==
    IF ~opt /\ value = None THEN Raise("AssertionError")
    ELSE IF value = None \/ s.minimum = None THEN Raise("TypeError")
    ELSE LET odd == Sub(int(value), PyInt(1))
             capped == max(int(s.minimum), odd)
         IN  Return(capped)

OddIntegerInput_enforce(s, value, opt) ==
    IF ~opt /\ value = None THEN Raise("AssertionError")
    ELSE IF value = None \/ s.minimum = None THEN Raise("TypeError")
    ELSE LET odd == Sub(int(value), Mod2(int(value)))
             capped == max(int(s.minimum), odd)
         IN  Return(capped)

BoundedIntegerInput_enforce(s, value, opt) ==
    IF ~opt /\ value = None THEN Raise("AssertionError")
    ELSE IF s.minimum = None \/ value = None \/ s.maximum = None
         THEN Raise("TypeError")
    ELSE Return(min(max(int(s.minimum), int(value)), int(s.maximum)))

\* variant: an absent value falls back to the default instead of raising
BoundlessIntegerInput_enforce_default(s, value, opt) ==
    IF value = None THEN Return(s.default) ELSE Return(int(value))

\* variant: the lower clamp of IntegerInput is applied
BoundlessIntegerInput_enforce_clamped(s, value, opt) ==
    IF ~opt /\ value = None THEN Raise("AssertionError")
    ELSE IF value = None THEN Raise("TypeError")
    ELSE Return(max(PyInt(0), int(value)))

BoundlessIntegerInput_enforce(s, value, opt) ==
    IF ~opt /\ value = None THEN Raise("AssertionError")
    ELSE IF value = None THEN Raise("TypeError")
    ELSE Return(int(value))

\* variant: the clamp is done on floats, without the int conversion
SliderInput_enforce_float(s, value, opt) ==
    IF ~opt /\ value = None THEN Raise("AssertionError")
    ELSE IF s.minimum = None \/ value = None \/ s.maximum = None
         THEN Raise("TypeError")
    ELSE Return(min(max(float(s.minimum), float(value)), float(s.maximum)))

SliderInput_enforce(s, value, opt) ==
    IF ~opt /\ value = None THEN Raise("AssertionError")
    ELSE IF s.minimum = None \/ value = None \/ s.maximum = None
         THEN Raise("TypeError")
    ELSE Return(min(max(int(s.minimum), int(value)), int(s.maximum)))

\* method resolution of s.enforce(value) on the class of s
enforce(s, value, opt) ==
    CASE s.cls = "NumberInput" -> NumberInput_enforce(s, value, opt)
      [] s.cls = "IntegerInput" -> IntegerInput_enforce(s, value, opt)
      [] s.cls = "BoundedNumberInput" -> BoundedNumberInput_enforce(s, value, opt)
      [] s.cls = "OddIntegerInput" -> OddIntegerInput_enforce(s, value, opt)
      [] s.cls = "BoundedIntegerInput" -> BoundedIntegerInput_enforce(s, value, opt)
      [] s.cls = "BoundlessIntegerInput" -> BoundlessIntegerInput_enforce(s, value, opt)
      [] s.cls = "SliderInput" -> SliderInput_enforce(s, value, opt)

\* ---- inputs of the model ----
Labels == {"Amount"}

\* fractional parts of the float arguments, in units of 1/Scale
Fractions == {0, 1, Scale \div 2, Scale - 1}

\* enforce arguments: every int of the range, and the floats of the range
\* whose fractional part is in Fractions
Values ==
    {PyInt(k) : k \in -MaxAbs..MaxAbs} \cup
    {PyFloat(n) : n \in {m \in (-MaxAbs * Scale)..(MaxAbs * Scale) :
                            \E k \in 0..MaxAbs, f \in Fractions :
                                m = k * Scale + f \/ m = -(k * Scale + f)}}

\* constructor bounds: ints, and floats in steps of one half
IntBounds == {PyInt(k) : k \in -MaxBound..MaxBound}
FloatBounds == {PyFloat((k * Scale) \div 2) : k \in -MaxBound..MaxBound}

\* bounds given to a plain NumberInput: absent, int or float
AnyMinimum == {None, PyInt(0), PyFloat(Scale \div 2)}
AnyMaximum == {None, PyInt(1), PyFloat(Scale + Scale \div 2)}

\* the constructor calls of the model; bounds satisfy minimum <= maximum and
\* the integer classes get int bounds, as their signatures declare
Descriptors ==
    {IntegerInput(l) : l \in Labels}
    \cup {BoundlessIntegerInput(l) : l \in Labels}
    \cup {OddIntegerInput(l, PyInt(1), mn) : l \in Labels, mn \in IntBounds}
    \cup {BoundedNumberInput(l, b[1], b[2], b[1], PyFloat(Scale \div 4)) :
            l \in Labels,
            b \in {p \in FloatBounds \X FloatBounds : p[1].n <= p[2].n}}
    \cup {BoundedIntegerInput(l, b[1], b[2], b[1], o) :
            l \in Labels, o \in BOOLEAN,
            b \in {p \in IntBounds \X IntBounds : p[1].n <= p[2].n}}
    \cup {SliderInput(l, b[1], b[2], b[1], o) :
            l \in Labels, o \in BOOLEAN,
            b \in {p \in IntBounds \X IntBounds : p[1].n <= p[2].n}}
    \cup {NumberInput(l, PyFloat(0), mn, mx, PyInt(1), FALSE, "any") :
            l \in Labels, mn \in AnyMinimum, mx \in AnyMaximum}

\* ---- the state machine ----
Init ==
    /\ self \in Descriptors
    /\ constructed = self
    /\ optimize \in BOOLEAN
    /\ x = None
    /\ out = NoCall
    /\ out2 = NoCall
    /\ dicts = <<>>
    /\ noneCalls = 0

\* the execution layer calls self.enforce(v)
CallEnforce(v) ==
    LET r == enforce(self, v, optimize)
    IN  /\ v = None => noneCalls < MaxNone
        /\ x' = v
        /\ out' = r
        /\ out2' = NoCall
        /\ noneCalls' = IF v = None THEN noneCalls + 1 ELSE noneCalls
        /\ UNCHANGED <<self, constructed, optimize, dicts>>

\* the caller passes the value enforce returned through enforce once more
CallEnforceAgain ==
    /\ out.kind = "return"
    /\ out2 = NoCall
    /\ out2' = enforce(self, out.val, optimize)
    /\ UNCHANGED <<self, constructed, optimize, x, out, dicts, noneCalls>>

\* the front end calls self.toDict()
CallToDict ==
    /\ Len(dicts) < MaxToDict
    /\ dicts' = Append(dicts, NumberInput_toDict(self))
    /\ UNCHANGED <<self, constructed, optimize, x, out, out2, noneCalls>>

Next ==
    \/ \E v \in Values \cup {None} : CallEnforce(v)
    \/ CallEnforceAgain
    \/ CallToDict

Spec == Init /\ [][Next]_vars

TypeOK ==
    /\ self \in Descriptors
    /\ optimize \in BOOLEAN
    /\ x \in Values \cup {None}
    /\ out.kind \in {"none", "return", "raise"}
    /\ out2.kind \in {"none", "return", "raise"}
    /\ Len(dicts) <= MaxToDict
    /\ noneCalls \in 0..MaxNone
\* ---- properties ----
Called == out.kind # "none"
Present == x # None
Bounded == self.cls \in {"BoundedNumberInput", "BoundedIntegerInput", "SliderInput"}
IsOddInt(v) == v.ty = "int" /\ (v.n \div Scale) % 2 = 1

\* floor(v) of a number, as an int value in units of 1/Scale
Floor(v) == (v.n \div Scale) * Scale

\* the largest odd integer <= an int v, in units of 1/Scale
OddFloor(v) == IF IsOddInt(v) THEN v.n ELSE v.n - Scale

\* C1: OddIntegerInput.enforce of an integer x returns the largest odd
\* integer <= x (4 -> 3, 5 -> 5, 1 -> 1) when that is >= minimum, and
\* minimum when it is below minimum.
C1_OddFloorOrMinimum ==
    (self.cls = "OddIntegerInput" /\ Called /\ x.ty = "int") =>
        /\ out.kind = "return"
        /\ IF OddFloor(x) >= self.minimum.n
           THEN /\ IsOddInt(out.val)
                /\ out.val.n <= x.n
                /\ out.val.n = OddFloor(x)
           ELSE out.val.n = self.minimum.n

\* C2: for the bounded classes built with minimum <= maximum, enforce of a
\* present value returns r with minimum <= r <= maximum.
C2_BoundedResultInRange ==
    (Bounded /\ Called /\ Present) =>
        /\ out.kind = "return"
        /\ self.minimum.n <= out.val.n
        /\ out.val.n <= self.maximum.n

C2_Witness ==
    /\ Bounded /\ Called /\ Present
    /\ x.n > self.maximum.n
    /\ out.kind = "return"
    /\ out.val.n = self.maximum.n

\* C3: whenever enforce(x) succeeds, enforce(enforce(x)) succeeds and
\* equals enforce(x).
C3_Idempotent ==
    (out.kind = "return" /\ out2.kind # "none") =>
        /\ out2.kind = "return"
        /\ PyEq(out2.val, out.val)

C3_Witness ==
    /\ self.cls = "OddIntegerInput"
    /\ out.kind = "return"
    /\ out2.kind = "return"
    /\ ~PyEq(out.val, x)

\* C4: whenever maximum is set, a value returned by enforce is <= maximum.
C4_ResultAtMostMaximum ==
    (self.maximum # None /\ Called /\ Present /\ out.kind = "return") =>
        out.val.n <= self.maximum.n

\* C5: enforce(None) raises and returns no number; the attributes stay as
\* constructed, and a later enforce of a present value gives what it gives
\* on the freshly constructed descriptor.
C5_AbsentValueRaises ==
    /\ (Called /\ ~Present) => (out.kind = "raise" /\ out.val = None)
    /\ self = constructed
    /\ (noneCalls > 0 /\ Called /\ Present) =>
           out = enforce(constructed, x, optimize)

C5_Witness ==
    /\ noneCalls > 0
    /\ Called /\ Present
    /\ out.kind = "return"
    /\ ~PyEq(out.val, x)

\* C6: with minimum absent, enforce of a present value succeeds and the
\* result is not raised above the value by any lower clamp.
C6_AbsentMinimumUnbounded ==
    (self.minimum = None /\ Called /\ Present) =>
        /\ out.kind = "return"
        /\ out.val.n <= x.n

\* C7: a SliderInput and the BoundedIntegerInput built from the same
\* arguments give the same enforce outcome on every value, None included,
\* and toDict records that agree in every key but "type".
SameButType(d, e) ==
    /\ DOMAIN d = DOMAIN e
    /\ \A k \in DOMAIN d \ {"type"} : d[k] = e[k]
    /\ {d.type, e.type} = {"number::slider", "number::any"}

C7_SliderEquivalentToBoundedInteger ==
    /\ self.cls = "SliderInput" =>
         LET twin == BoundedIntegerInput(self.label, self.minimum,
                                         self.maximum, self.default,
                                         self.optional)
         IN  /\ Called => out = BoundedIntegerInput_enforce(twin, x, optimize)
             /\ \A i \in 1..Len(dicts) :
                    /\ dicts[i].type = "number::slider"
                    /\ SameButType(dicts[i], NumberInput_toDict(twin))
    /\ self.cls = "BoundedIntegerInput" =>
         LET twin == SliderInput(self.label, self.minimum, self.maximum,
                                 self.default, self.optional)
         IN  /\ Called => out = SliderInput_enforce(twin, x, optimize)
             /\ \A i \in 1..Len(dicts) :
                    /\ dicts[i].type = "number::any"
                    /\ SameButType(dicts[i], NumberInput_toDict(twin))

C7_Witness ==
    /\ self.cls = "SliderInput"
    /\ out.kind = "return"
    /\ x.ty = "float"
    /\ x.n > self.maximum.n
    /\ Len(dicts) > 0

\* C8: IntegerInput.enforce(v) is the int max(0, floor(v)) for every
\* present v, and is never negative.
C8_IntegerInputIsMaxZeroFloor ==
    (self.cls = "IntegerInput" /\ Called /\ Present) =>
        /\ out.kind = "return"
        /\ out.val.ty = "int"
        /\ out.val.n = (IF Floor(x) > 0 THEN Floor(x) ELSE 0)
        /\ out.val.n >= 0

C8_Witness ==
    /\ self.cls = "IntegerInput"
    /\ out.kind = "return"
    /\ x.n < 0
    /\ x.n > -Scale
    /\ Floor(x) = -Scale
    /\ out.val.n = 0

\* C9: BoundlessIntegerInput.enforce returns the int obtained by
\* truncating toward zero, unclamped: 3.9 -> 3, -3.9 -> -3, an int is
\* returned unchanged.
C9_BoundlessTruncates ==
    (self.cls = "BoundlessIntegerInput" /\ Called /\ Present) =>
        /\ out.kind = "return"
        /\ out.val.ty = "int"
        /\ out.val.n % Scale = 0
        /\ x.n >= 0 => (out.val.n <= x.n /\ x.n < out.val.n + Scale)
        /\ x.n <= 0 => (out.val.n >= x.n /\ x.n > out.val.n - Scale)
        /\ x.n * 10 = 39 * Scale => out.val.n = 3 * Scale
        /\ x.n * 10 = -39 * Scale => out.val.n = -3 * Scale
        /\ x.ty = "int" => out.val = x

C9_Witness ==
    /\ self.cls = "BoundlessIntegerInput"
    /\ x.ty = "float"
    /\ x.n * 10 = -39 * Scale
    /\ out.kind = "return"
    /\ out.val.n = -3 * Scale

\* C10: every record toDict returned has exactly the eight keys, carries
\* the attributes as constructed, hasHandle true and the type tag of the
\* class, whatever enforce and toDict calls came before.
DictKeys ==
    {"type", "label", "min", "max", "def", "step", "hasHandle", "optional"}

C10_ToDictStable ==
    \A i \in 1..Len(dicts) :
        LET d == dicts[i]
        IN  /\ DOMAIN d = DictKeys
            /\ d.label = constructed.label
            /\ d.min = constructed.minimum
            /\ d.max = constructed.maximum
            /\ d.def = constructed.default
            /\ d.step = constructed.step
            /\ d.optional = constructed.optional
            /\ d.hasHandle = TRUE
            /\ d.type = (IF self.cls = "SliderInput" THEN "number::slider"
                                                   ELSE "number::any")
            /\ d = dicts[1]

C10_Witness ==
    /\ Len(dicts) = MaxToDict
    /\ self.cls = "SliderInput"
    /\ out.kind = "return"
    /\ out2.kind = "return"
    /\ noneCalls > 0
====
